---- MODULE Spec2Model ----
(***************************************************************************)
(* Upload lifecycle state machine and resumable-upload persistence store   *)
(* of react-native-tus: the JS session (TusUpload), the two variants of    *)
(* the upload store, the lifecycle coordinator (BackgroundUploadManager)   *)
(* and the Android / iOS transports as far as the JS layer observes them.  *)
(***************************************************************************)
EXTENDS Integers, Sequences, FiniteSets, TLC

(***************************************************************************)
(* Bounds of the model.                                                    *)
(***************************************************************************)
\* upload ids the transport can hand out (UUIDs: never reused, also across restarts)
MaxIds == 2
\* live TusUpload objects per process
MaxSessions == 1
\* process restarts
MaxRestarts == 1
\* failures (storage or transport) injected per behaviour
MaxFaults == 1
\* concurrently running transfer tasks (worker threads / TUSKit tasks) per handle
MaxWorkers == 1
\* size in bytes of the file "fileA" ("fileB" is empty)
SizeA == 2

Ids == 1..MaxIds
Files == {"fileA", "fileB"}
Statuses == {"pending", "uploading", "paused", "completed", "failed"}
\* the null url; the url the server assigns to upload i is i
Null == 0

FileSize(f) == IF f = "fileA" THEN SizeA ELSE 0

(***************************************************************************)
(* The store: a mapping id -> UploadMetadata, in memory (uploads) and in   *)
(* MMKV (stored).                                                          *)
(***************************************************************************)
Empty == [i \in {} |-> 0]

Put(m, id, r) == [i \in (DOMAIN m) \cup {id} |-> IF i = id THEN r ELSE m[i]]

Drop(m, id) == [i \in (DOMAIN m) \ {id} |-> m[i]]

\* JSON.stringify drops the function-valued properties of options
Serialize(m) == [i \in DOMAIN m |-> [m[i] EXCEPT !.options = [callbacks |-> FALSE]]]

\* getStoredUploads: the parsed mapping, {} when reading fails
getStoredUploads(dur, ok) == IF ok THEN dur ELSE Empty

\* setStoredUploads: the write is attempted, a failure is logged and swallowed
setStoredUploads(dur, m, ok) == IF ok THEN Serialize(m) ELSE dur

\* persist variant: only the serializable part of options is kept
Cleaned(md) == [md EXCEPT !.options = [callbacks |-> FALSE]]

VARIABLES
  variant,    \* which store implementation is linked: "mmkv" or "persist"
  platform,   \* which transport is linked: "android" or "ios"
  uploads,    \* useUploadStore state: id -> UploadMetadata (in memory)
  stored,     \* the mapping held by MMKV under the store's key
  now,        \* Date.now()
  nextId,     \* the next upload id createUpload hands out
  sess,       \* the live TusUpload objects, each with its native handle
  mgr,        \* the BackgroundUploadManager singleton
  run,        \* the bulk resume in flight (resumePendingUploads)
  thrown,     \* what the most recent call surfaced to its caller ("none": it returned)
  faults,     \* failures injected so far
  restarts,   \* process restarts so far
  hist,       \* history: what the claims need to remember
  last        \* the most recent call or callback, and the handler invocations it made

vars == <<variant, platform, uploads, stored, now, nextId, sess, mgr, run, thrown,
          faults, restarts, hist, last>>

\* the slots for TusUpload objects the process has: MaxSessions of them, and one more
\* where two sessions are followed side by side
Sessions == DOMAIN sess

(***************************************************************************)
(* Store operations. A store value st is [mem, dur, bad]: the in-memory    *)
(* mapping, the durable mapping, and whether a storage access has failed.  *)
(* ok is the outcome of the storage accesses of the call. synced: the      *)
(* memory was loaded from, or written to, the durable mapping since the    *)
(* process started.                                                        *)
(***************************************************************************)
Store == [mem |-> uploads, dur |-> stored, bad |-> hist.ioFailed, synced |-> hist.synced]

\* the write every mutation ends with: setStoredUploads (mmkv variant), the persist
\* middleware's setItem through zustandMMKVStorage (persist variant)
Written(st, m, ok) ==
  [mem |-> m, dur |-> setStoredUploads(st.dur, m, ok), bad |-> st.bad \/ ~ok,
   synced |-> TRUE]

\* a merge that builds the record anew: the creation time is the time of the update
MergeOver(existing, updates) ==
  [f \in DOMAIN existing |->
     IF f \in DOMAIN updates THEN updates[f]
     ELSE IF f = "createdAt" THEN now ELSE existing[f]]

Merge(existing, updates) ==
  [f \in DOMAIN existing |-> IF f \in DOMAIN updates THEN updates[f] ELSE existing[f]]

addUpload(st, id, metadata, ok) ==
  IF variant = "mmkv"
    THEN Written(st, Put(st.mem, id, metadata), ok)
    ELSE Written(st, Put(st.mem, id, Cleaned(metadata)), ok)

\* updateUpload without the test for a missing record: the updates become a record
updateUploadUpsert(st, id, updates, ok) ==
  Written(st, Put(st.mem, id,
                  [Merge(IF id \in DOMAIN st.mem THEN st.mem[id]
                         ELSE [id |-> id, fileUri |-> "fileA", url |-> Null, uploadSize |-> 0,
                               offset |-> 0, options |-> [callbacks |-> FALSE],
                               status |-> "pending", createdAt |-> now, updatedAt |-> now],
                         updates) EXCEPT !.updatedAt = now]), ok)

\* updateUpload that is not keyed by id: the updates go into every record
updateUploadShared(st, id, updates, ok) ==
  IF id \notin DOMAIN st.mem
    THEN IF variant = "mmkv" THEN st ELSE Written(st, st.mem, ok)
    ELSE Written(st, [i \in DOMAIN st.mem |->
                        [Merge(st.mem[i], updates) EXCEPT !.updatedAt = now]], ok)

updateUpload(st, id, updates, ok) ==
  IF id \notin DOMAIN st.mem
    THEN \* mmkv: returns state, nothing is written; persist: set() still runs setItem
         IF variant = "mmkv" THEN st ELSE Written(st, st.mem, ok)
    ELSE Written(st, Put(st.mem, id, [Merge(st.mem[id], updates) EXCEPT !.updatedAt = now]), ok)

removeUpload(st, id, ok) == Written(st, Drop(st.mem, id), ok)

NotCompleted(m) == {i \in DOMAIN m : m[i].status # "completed"}

\* clearCompleted that drops every finished record, failed ones included
clearFinished(st, ok) ==
  Written(st, [i \in {j \in DOMAIN st.mem : st.mem[j].status \notin {"completed", "failed"}}
                 |-> st.mem[i]], ok)

clearCompleted(st, ok) == Written(st, [i \in NotCompleted(st.mem) |-> st.mem[i]], ok)

\* mmkv: storage.delete is not guarded: when it throws, set() is never reached
clearAll(st, ok) ==
  IF variant = "mmkv"
    THEN IF ok THEN [mem |-> Empty, dur |-> Empty, bad |-> st.bad, synced |-> TRUE]
               ELSE [st EXCEPT !.bad = TRUE]
    ELSE Written(st, Empty, ok)

clearAllThrows(ok) == variant = "mmkv" /\ ~ok

\* restoreUploads that leaves the memory as it is when the read fails
restoreUploadsKeeps(st, ok) ==
  IF ok THEN [mem |-> st.dur, dur |-> st.dur, bad |-> st.bad, synced |-> TRUE]
        ELSE [st EXCEPT !.bad = TRUE]

\* mmkv: restoreUploads; persist: the hydration at store creation
restoreUploads(st, ok) ==
  [mem |-> getStoredUploads(st.dur, ok), dur |-> st.dur, bad |-> st.bad \/ ~ok,
   synced |-> TRUE]

getActiveUploads(m) == {i \in DOMAIN m : m[i].status \in {"uploading", "pending"}}

(***************************************************************************)
(* The session (TusUpload) with its native handle (HybridTusUpload).       *)
(***************************************************************************)
\* the event types whose callbacks the model delivers (chunkComplete is registered
\* the same way and never fired here)
EventTypes == {"progress", "success", "error"}

\* handler functions: the one the options object carries, and another one
Handlers == {"opt", "h"}

\* a registry that is an array: add pushes the handler whether or not it is there
setAddAlways(q, h) == Append(q, h)

\* Set.add: a Set keeps its elements once, in insertion order
setAdd(q, h) == IF \E k \in DOMAIN q : q[k] = h THEN q ELSE Append(q, h)

\* Set.delete
setDelete(q, h) == SelectSeq(q, LAMBDA v : v # h)

\* handlers.forEach: the handlers invoked when event e fires on session x, in order
Invoked(x, e) == x.reg[e]

\* a free slot: no TusUpload object
NoSession ==
  [alive |-> FALSE, file |-> "fileA", cb |-> FALSE, native |-> 0, url |-> Null,
   isPaused |-> FALSE, workers |-> 0, task |-> FALSE, nurl |-> Null, noffset |-> 0,
   upOff |-> 0, errCalls |-> 0, failures |-> 0, rejections |-> 0, byBulk |-> FALSE,
   hung |-> FALSE, reg |-> [e \in EventTypes |-> <<>>]]

\* new TusUpload(file, options): nativeUpload = null, _url = null; the callbacks of
\* options are registered as handlers
NewSession(f, cb) ==
  [NoSession EXCEPT !.alive = TRUE, !.file = f, !.cb = cb,
                    !.reg = [e \in EventTypes |-> IF cb THEN setAdd(<<>>, "opt") ELSE <<>>]]

\* the record start() inserts
NewRecord(id, x) ==
  [id |-> id, fileUri |-> x.file, url |-> Null, uploadSize |-> FileSize(x.file),
   offset |-> 0, options |-> [callbacks |-> x.cb], status |-> "pending",
   createdAt |-> now, updatedAt |-> now]

\* handleError that marks the record and calls no handler
handleErrorNoFanout(w, ok) ==
  [st |-> IF w.x.native # 0
            THEN updateUpload(w.st, w.x.native, [status |-> "failed"], ok)
            ELSE w.st,
   x |-> w.x]

\* handleError: every registered error handler is called, then the record is marked
handleError(w, ok) ==
  [st |-> IF w.x.native # 0
            THEN updateUpload(w.st, w.x.native, [status |-> "failed"], ok)
            ELSE w.st,
   x |-> [w.x EXCEPT !.errCalls = @ + Len(Invoked(w.x, "error"))]]

\* onProgress that keeps only the offset of the last progress event of a file
onProgressCoalesced(w, b, ok) ==
  [st |-> IF b = FileSize(w.x.file)
            THEN updateUpload(w.st, w.x.native, [offset |-> b], ok)
            ELSE w.st,
   x |-> w.x]

\* nativeUpload.onProgress
onProgress(w, b, ok) ==
  [st |-> updateUpload(w.st, w.x.native, [offset |-> b], ok), x |-> w.x]

\* nativeUpload.onSuccess: _url = nativeUpload.url || null
onSuccess(w, ok) ==
  [st |-> updateUpload(w.st, w.x.native, [status |-> "completed", url |-> w.x.nurl], ok),
   x |-> [w.x EXCEPT !.url = w.x.nurl]]

\* HybridTusUpload.start, the part that runs in the caller's thread.
\* android: a worker thread is started, whose uploader resumes at the offset the
\* server knows (u); ios: a new TUSKit upload is scheduled.
nativeStart(x, u) ==
  IF platform = "android"
    THEN [x EXCEPT !.isPaused = FALSE, !.workers = @ + 1, !.upOff = u]
    ELSE [x EXCEPT !.isPaused = FALSE, !.workers = @ + 1, !.upOff = 0, !.task = TRUE]

\* ios only: uploadFileAt throws: onError is called and the promise is rejected
nativeStartFails(w, ok) ==
  LET e == handleError([w EXCEPT !.x.isPaused = FALSE], ok)
  IN  [e EXCEPT !.x.rejections = @ + 1, !.x.failures = @ + 1]

StartOutcomes(x) ==
  {"ok"} \cup (IF x.native = 0 THEN {"createFails"} ELSE {})
         \cup (IF platform = "ios" THEN {"startFails"} ELSE {})

\* where a new android uploader may start: at the known offset, or at 0 when the
\* server no longer has the upload and it is created again
StartOffsets(x) == IF platform = "android" THEN {0, x.noffset} ELSE {0}

\* start without the test of nativeUpload: createUpload and addUpload on every call
startAlwaysCreates(w, id, outcome, u, ok) ==
  LET x1 == [w.x EXCEPT !.native = id]
      st1 == addUpload(w.st, id, NewRecord(id, w.x), ok)
      st2 == updateUpload(st1, id, [status |-> "uploading"], ok)
  IN  [st |-> st2, x |-> nativeStart(x1, u), id |-> id + 1, thrown |-> "none"]

\* TusUpload.start up to its await; w is [st, x], the result adds id (the next free
\* upload id) and thrown
start(w, id, outcome, u, ok) ==
  IF w.x.native = 0 /\ outcome = "createFails"
    THEN \* createUpload throws: catch, handleError, rethrow
         LET e == handleError(w, ok)
         IN  [st |-> e.st, x |-> [e.x EXCEPT !.failures = @ + 1], id |-> id,
              thrown |-> "creation"]
    ELSE LET fresh == w.x.native = 0
             x1 == IF fresh THEN [w.x EXCEPT !.native = id] ELSE w.x
             st1 == IF fresh THEN addUpload(w.st, id, NewRecord(id, w.x), ok) ELSE w.st
             st2 == updateUpload(st1, x1.native, [status |-> "uploading"], ok)
             w2 == [st |-> st2, x |-> x1]
             w3 == IF outcome = "startFails"
                     THEN nativeStartFails(w2, ok)
                     ELSE [st |-> st2, x |-> nativeStart(x1, u)]
         IN  [st |-> w3.st, x |-> w3.x, id |-> IF fresh THEN id + 1 ELSE id,
              thrown |-> "none"]

\* whether start can be taken within the bounds of the model
CanStart(x, outcome) ==
  /\ outcome \in StartOutcomes(x)
  /\ outcome = "ok" => x.workers < MaxWorkers
  /\ (x.native = 0 /\ outcome # "createFails") => nextId <= MaxIds
  /\ outcome # "ok" => faults < MaxFaults

(***************************************************************************)
(* State changes shared by the actions.                                    *)
(***************************************************************************)
\* nothing to report: the step was no call or callback the claims have to tell from
\* the others (start() with a handle, pause()/resume() without one, the callbacks)
NoCall == [op |-> "none", s |-> 0, had |-> FALSE, calls |-> 0, b |-> 0, t |-> 0, res |-> <<>>,
           who |-> <<>>]

\* op on session s; had: the session held a transport handle (the coordinator was
\* initialized) when it began; calls: the invocations of each registered handler
\* of the event; b, t: the arguments they were given; res: the array it returned;
\* who: the handlers invoked, in order
Call(op, s, had, calls, b, t) ==
  [op |-> op, s |-> s, had |-> had, calls |-> calls, b |-> b, t |-> t, res |-> <<>>,
   who |-> <<>>]

\* how often handler h occurs in the invocations q
Times(q, h) == Cardinality({k \in DOMAIN q : q[k] = h})

\* event e fires on session x (slot s) with arguments (b, t)
Fire(e, s, x, b, t) ==
  [Call(e, s, TRUE, Times(Invoked(x, e), "opt"), b, t) EXCEPT !.who = Invoked(x, e)]

\* handlers.forEach: the invocations of each handler options registered
Fanout(x) == IF x.cb THEN 1 ELSE 0

\* the outcomes a storage access can have within the fault budget
IoOutcomes == IF faults < MaxFaults THEN BOOLEAN ELSE {TRUE}

Fault(b) == IF b THEN 1 ELSE 0

\* the store value st becomes the state; h is the history it goes with
Commit(st, h) ==
  /\ uploads' = st.mem
  /\ stored' = st.dur
  /\ hist' = [h EXCEPT !.ioFailed = st.bad, !.synced = st.synced]

\* the session in slot s together with the store
World(s) == [st |-> Store, x |-> sess[s]]

FreeSlots == {k \in Sessions : ~sess[k].alive}

FirstFree == CHOOSE k \in FreeSlots : \A j \in FreeSlots : k <= j

\* a session the caller holds a reference to (the ones a bulk resume makes are its own)
Live(s) == sess[s].alive /\ ~sess[s].byBulk

Started(s) == sess[s].alive /\ sess[s].native # 0

(***************************************************************************)
(* Caller-issued session operations.                                       *)
(***************************************************************************)
\* new TusUpload(file, options)
Construct(f, cb) ==
  /\ FreeSlots # {}
  /\ sess' = [sess EXCEPT ![FirstFree] = NewSession(f, cb)]
  /\ thrown' = "none"
  /\ last' = NoCall
  /\ UNCHANGED <<variant, platform, uploads, stored, now, nextId, mgr, run, faults,
                 restarts, hist>>

\* on(event, callback)
On(s, e, h) ==
  /\ Live(s)
  /\ sess' = [sess EXCEPT ![s].reg[e] = setAdd(@, h)]
  /\ thrown' = "none"
  /\ last' = NoCall
  /\ UNCHANGED <<variant, platform, uploads, stored, now, nextId, mgr, run, faults,
                 restarts, hist>>

\* off(event, callback)
Off(s, e, h) ==
  /\ Live(s)
  /\ sess' = [sess EXCEPT ![s].reg[e] = setDelete(@, h)]
  /\ thrown' = "none"
  /\ last' = NoCall
  /\ UNCHANGED <<variant, platform, uploads, stored, now, nextId, mgr, run, faults,
                 restarts, hist>>

\* off(event): handlers.clear()
OffAll(s, e) ==
  /\ Live(s)
  /\ sess' = [sess EXCEPT ![s].reg[e] = <<>>]
  /\ thrown' = "none"
  /\ last' = NoCall
  /\ UNCHANGED <<variant, platform, uploads, stored, now, nextId, mgr, run, faults,
                 restarts, hist>>

\* TusUpload.start
Start(s) ==
  /\ Live(s)
  /\ \E outcome \in StartOutcomes(sess[s]), u \in StartOffsets(sess[s]), ok \in IoOutcomes :
       /\ CanStart(sess[s], outcome)
       /\ faults + Fault(~ok) + Fault(outcome # "ok") <= MaxFaults
       /\ LET r == start(World(s), nextId, outcome, u, ok)
          IN  /\ Commit(r.st, hist)
              /\ sess' = [sess EXCEPT ![s] = r.x]
              /\ nextId' = r.id
              /\ thrown' = r.thrown
       /\ faults' = faults + Fault(~ok) + Fault(outcome # "ok")
  /\ last' = IF sess[s].native # 0 THEN Call("start", s, TRUE, 0, 0, 0) ELSE NoCall
  /\ UNCHANGED <<variant, platform, now, mgr, run, restarts>>

\* The caller drops its reference to a session that has nothing in flight (the bulk
\* resume never keeps one): the object is garbage.
Release(s) ==
  /\ sess[s].alive
  /\ sess[s].workers = 0
  /\ sess[s].rejections = 0
  /\ run.awaiting # s
  /\ sess' = [sess EXCEPT ![s] = NoSession]
  /\ last' = NoCall
  /\ UNCHANGED <<variant, platform, uploads, stored, now, nextId, mgr, run, thrown,
                 faults, restarts, hist>>

\* HybridTusUpload.pause: android sets the flag; ios also cancels the scheduled task
nativePause(x) ==
  IF platform = "android"
    THEN [x EXCEPT !.isPaused = TRUE]
    ELSE [x EXCEPT !.isPaused = TRUE,
                   !.workers = IF x.task /\ @ > 0 THEN @ - 1 ELSE @]

\* pause without the test of nativeUpload
PauseUnguarded(s) ==
  /\ Live(s)
  /\ \E ok \in IoOutcomes :
       /\ Commit(updateUpload(Store, sess[s].native, [status |-> "paused"], ok), hist)
       /\ sess' = [sess EXCEPT ![s] = nativePause(@)]
       /\ thrown' = "none"
       /\ faults' = faults + Fault(~ok)
  /\ last' = Call("pause", s, sess[s].native # 0, 0, 0, 0)
  /\ UNCHANGED <<variant, platform, now, nextId, mgr, run, restarts>>

\* TusUpload.pause
Pause(s) ==
  /\ Live(s)
  /\ IF sess[s].native = 0
       THEN /\ thrown' = "notStarted"
            /\ UNCHANGED <<uploads, stored, hist, sess, faults>>
       ELSE \E ok \in IoOutcomes :
              /\ Commit(updateUpload(Store, sess[s].native, [status |-> "paused"], ok), hist)
              /\ sess' = [sess EXCEPT ![s] = nativePause(@)]
              /\ thrown' = "none"
              /\ faults' = faults + Fault(~ok)
  /\ last' = IF sess[s].native = 0 THEN Call("pause", s, FALSE, 0, 0, 0) ELSE NoCall
  /\ UNCHANGED <<variant, platform, now, nextId, mgr, run, restarts>>

\* HybridTusUpload.resume: android is start(); ios resumes the scheduled task, or
\* starts when there is none
ResumeOutcomes(x) ==
  IF platform = "android" THEN {"ok"}
  ELSE IF x.task THEN {"ok", "resumeFails"} ELSE {"ok", "startFails"}

nativeResume(x, u) ==
  IF platform = "ios" /\ x.task
    THEN [x EXCEPT !.isPaused = FALSE, !.workers = IF @ = 0 THEN 1 ELSE @]
    ELSE nativeStart(x, u)

\* TusUpload.resume up to its await
resume(w, outcome, u, ok) ==
  LET w1 == [st |-> updateUpload(w.st, w.x.native, [status |-> "uploading"], ok), x |-> w.x]
  IN  CASE outcome = "ok" -> [st |-> w1.st, x |-> nativeResume(w1.x, u)]
        [] outcome = "startFails" -> nativeStartFails(w1, ok)
        [] outcome = "resumeFails" ->
             [w1 EXCEPT !.x.rejections = @ + 1, !.x.failures = @ + 1]

\* TusUpload.resume
Resume(s) ==
  /\ Live(s)
  /\ IF sess[s].native = 0
       THEN /\ thrown' = "notStarted"
            /\ UNCHANGED <<uploads, stored, hist, sess, faults>>
       ELSE \E outcome \in ResumeOutcomes(sess[s]), u \in StartOffsets(sess[s]),
               ok \in IoOutcomes :
              /\ outcome = "ok" =>
                   (sess[s].workers < MaxWorkers \/ (platform = "ios" /\ sess[s].task))
              /\ faults + Fault(~ok) + Fault(outcome # "ok") <= MaxFaults
              /\ LET r == resume(World(s), outcome, u, ok)
                 IN  /\ Commit(r.st, hist)
                     /\ sess' = [sess EXCEPT ![s] = r.x]
              /\ thrown' = "none"
              /\ faults' = faults + Fault(~ok) + Fault(outcome # "ok")
  /\ last' = IF sess[s].native = 0 THEN Call("resume", s, FALSE, 0, 0, 0) ELSE NoCall
  /\ UNCHANGED <<variant, platform, now, nextId, mgr, run, restarts>>

\* HybridTusUpload.abort: android sets the pause flag; ios cancels the scheduled task
nativeAbort(x) ==
  IF platform = "android"
    THEN [x EXCEPT !.isPaused = TRUE]
    ELSE [x EXCEPT !.workers = IF x.task /\ @ > 0 THEN @ - 1 ELSE @]

\* TusUpload.abort; cancelled: nativeUpload.abort() resolved (it rejected otherwise)
abort(w, cancelled, ok) ==
  IF cancelled
    THEN [st |-> updateUpload(w.st, w.x.native, [status |-> "failed"], ok),
          x |-> nativeAbort(w.x)]
    ELSE w

Abort(s) ==
  /\ Live(s)
  /\ IF sess[s].native = 0
       THEN UNCHANGED <<uploads, stored, hist, sess, faults>>
       ELSE \E cancelled \in IoOutcomes, ok \in IoOutcomes :
              /\ faults + Fault(~ok) + Fault(~cancelled) <= MaxFaults
              /\ LET r == abort(World(s), cancelled, ok)
                 IN  /\ Commit(r.st, hist)
                     /\ sess' = [sess EXCEPT ![s] = r.x]
              /\ faults' = faults + Fault(~ok) + Fault(~cancelled)
  /\ thrown' = "none"
  /\ last' = NoCall
  /\ UNCHANGED <<variant, platform, now, nextId, mgr, run, restarts>>

\* the ids Object.values() goes through, in insertion (id) order
RECURSIVE IdsInOrder(_)
IdsInOrder(S) ==
  IF S = {} THEN <<>>
  ELSE LET i == CHOOSE j \in S : \A k \in S : j <= k
       IN  <<i>> \o IdsInOrder(S \ {i})

\* the filter without its test of the url
IsPreviousAnyUrl(r, f) == r.fileUri = f

\* the filter of findPreviousUploads
IsPrevious(r, f) == r.fileUri = f /\ r.url # Null

\* the map of findPreviousUploads
PreviousUpload(r) ==
  [uploadId |-> r.id, uploadUrl |-> r.url, fileUri |-> r.fileUri,
   uploadSize |-> r.uploadSize, offset |-> r.offset]

\* findPreviousUploads on the mapping m for the file f
findPreviousUploads(m, f) ==
  LET all == IdsInOrder(DOMAIN m)
      kept == SelectSeq(all, LAMBDA i : IsPrevious(m[i], f))
  IN  [k \in 1..Len(kept) |-> PreviousUpload(m[kept[k]])]

\* TusUpload.findPreviousUploads
FindPreviousUploads(s) ==
  /\ Live(s)
  /\ last' = [Call("findPreviousUploads", s, sess[s].native # 0, 0, 0, 0)
               EXCEPT !.res = findPreviousUploads(uploads, sess[s].file)]
  /\ thrown' = "none"
  /\ UNCHANGED <<variant, platform, uploads, stored, now, nextId, sess, mgr, run,
                 faults, restarts, hist>>

\* TusUpload.resumeFromPreviousUpload(previousUpload), with one of the tuples
\* findPreviousUploads returns for the session's file
ResumeFromPreviousUpload(s, k) ==
  /\ Live(s)
  /\ k \in DOMAIN findPreviousUploads(uploads, sess[s].file)
  /\ sess' = [sess EXCEPT ![s].url = findPreviousUploads(uploads, sess[s].file)[k].uploadUrl]
  /\ last' = Call("resumeFromPreviousUpload", s, sess[s].native # 0, 0, 0, 0)
  /\ thrown' = "none"
  /\ UNCHANGED <<variant, platform, uploads, stored, now, nextId, mgr, run, faults,
                 restarts, hist>>

(***************************************************************************)
(* Transport events, as the JS thread receives them.                       *)
(***************************************************************************)
Running(s) == sess[s].alive /\ sess[s].native # 0 /\ sess[s].workers > 0

\* the start()/resume() promises of the native handle that have not settled (at
\* least). android: one per worker thread, settled when the worker resolves or
\* rejects, and one left for good by a worker that returned on the pause flag
\* (hung); ios: start() and resume() settle before they return.
Unsettled(x) == IF platform = "android" THEN x.workers + (IF x.hung THEN 1 ELSE 0) ELSE 0

Size(s) == FileSize(sess[s].file)

\* the await on session s ends the whole bulk resume
ReleasedEndsRun(s) == IF run.awaiting = s THEN [kind |-> "none", queue |-> <<>>, awaiting |-> 0, current |-> 0] ELSE run

\* the bulk resume's await on session s is over
Released(s) == IF run.awaiting = s THEN [run EXCEPT !.awaiting = 0] ELSE run

\* A chunk was uploaded and the offset is now b. android (makeAttempt's loop):
\* currentOffset and uploadUrl are set, onProgress is called, and the worker leaves
\* without settling its promise when it finds the pause flag set. ios (progressFor):
\* onProgress is called, _offset is left alone.
TransportProgress(s, b) ==
  /\ Running(s)
  /\ b \in (sess[s].upOff + 1)..Size(s)
  /\ \E ok \in IoOutcomes :
       LET x1 == IF platform = "android"
                   THEN [sess[s] EXCEPT !.upOff = b, !.noffset = b, !.nurl = sess[s].native,
                                        !.workers = IF sess[s].isPaused THEN @ - 1 ELSE @,
                                        !.hung = @ \/ sess[s].isPaused]
                   ELSE [sess[s] EXCEPT !.upOff = b]
           r == onProgress([st |-> Store, x |-> x1], b, ok)
       IN  /\ Commit(r.st, hist)
           /\ sess' = [sess EXCEPT ![s] = r.x]
           /\ faults' = faults + Fault(~ok)
  /\ last' = Fire("progress", s, sess[s], b, Size(s))
  /\ UNCHANGED <<variant, platform, now, nextId, mgr, run, thrown, restarts>>

\* HybridTusUpload.getProgress, read through TusUpload.getProgress of a started
\* session: the handle's offset and size. android: currentOffset is set by the worker
\* before each progress callback; ios: _offset is never assigned
getProgress(x) ==
  [bytesUploaded |-> x.noffset,
   bytesTotal |-> FileSize(x.file),
   percentage |-> IF FileSize(x.file) > 0 THEN (x.noffset * 100) \div FileSize(x.file) ELSE 0]

\* the final URL the transport reports on success: the location of the upload
\* (android: uploader.uploadURL; ios: the url argument of didFinishUpload)
FinalUrl(s) == sess[s].native

\* The upload is complete. android: the loop ends, uploadUrl is known, onSuccess is
\* called and the worker's promise resolves. ios (didFinishUpload): onSuccess is
\* called; the url the delegate is given is not kept.
TransportSuccess(s) ==
  /\ Running(s)
  /\ platform = "android" => sess[s].upOff = Size(s)
  /\ \E ok \in IoOutcomes :
       LET x1 == IF platform = "android"
                   THEN [sess[s] EXCEPT !.nurl = sess[s].native, !.workers = @ - 1]
                   ELSE [sess[s] EXCEPT !.workers = @ - 1]
           r == onSuccess([st |-> Store, x |-> x1], ok)
       IN  /\ Commit(r.st, hist)
           /\ sess' = [sess EXCEPT ![s] = r.x]
           /\ faults' = faults + Fault(~ok)
  /\ run' = IF platform = "android" THEN Released(s) ELSE run
  /\ last' = Fire("success", s, sess[s], FinalUrl(s), 0)
  /\ UNCHANGED <<variant, platform, now, nextId, mgr, thrown, restarts>>

\* The transfer failed. android: onError is called and the worker's promise is
\* rejected. ios (uploadFailed): onError is called.
TransportError(s) ==
  /\ Running(s)
  /\ faults < MaxFaults
  /\ LET x1 == [sess[s] EXCEPT !.workers = @ - 1, !.failures = @ + 1,
                               !.rejections = IF platform = "android" THEN @ + 1 ELSE @]
         r == handleError([st |-> Store, x |-> x1], TRUE)
     IN  /\ Commit(r.st, hist)
         /\ sess' = [sess EXCEPT ![s] = r.x]
  /\ faults' = faults + 1
  /\ last' = Fire("error", s, sess[s], 0, 0)
  /\ UNCHANGED <<variant, platform, now, nextId, mgr, run, thrown, restarts>>

\* A rejected start()/resume() promise reaches the catch block of the call:
\* handleError, rethrow. A bulk resume awaiting the call catches the error and
\* marks the record it was resuming.
PromiseRejected(s) ==
  /\ sess[s].alive
  /\ sess[s].rejections > 0
  /\ \E ok \in IoOutcomes :
       LET r == handleError([st |-> Store,
                             x |-> [sess[s] EXCEPT !.rejections = @ - 1]], ok)
           st2 == IF run.awaiting = s
                    THEN updateUpload(r.st, run.current, [status |-> "failed"], ok)
                    ELSE r.st
       IN  /\ Commit(st2, hist)
           /\ sess' = [sess EXCEPT ![s] = r.x]
           /\ faults' = faults + Fault(~ok)
  /\ run' = Released(s)
  \* the rejection reaches the caller of start(); the bulk resume catches its own
  /\ thrown' = IF run.awaiting = s THEN thrown ELSE "transport"
  /\ last' = NoCall
  /\ UNCHANGED <<variant, platform, now, nextId, mgr, restarts>>

(***************************************************************************)
(* Store operations issued by the caller.                                  *)
(***************************************************************************)
RemoveUpload(id) ==
  /\ \E ok \in IoOutcomes :
       /\ Commit(removeUpload(Store, id, ok), hist)
       /\ faults' = faults + Fault(~ok)
  /\ thrown' = "none"
  /\ last' = NoCall
  /\ UNCHANGED <<variant, platform, now, nextId, sess, mgr, run, restarts>>

\* also BackgroundUploadManager.clearCompletedUploads
ClearCompleted ==
  /\ \E ok \in IoOutcomes :
       /\ Commit(clearCompleted(Store, ok), hist)
       /\ faults' = faults + Fault(~ok)
  /\ thrown' = "none"
  /\ last' = IF NotCompleted(uploads) # DOMAIN uploads
               THEN Call("clearCompleted", 0, FALSE, 0, 0, 0) ELSE NoCall
  /\ UNCHANGED <<variant, platform, now, nextId, sess, mgr, run, restarts>>

\* also BackgroundUploadManager.clearAllUploads
ClearAll ==
  /\ \E ok \in IoOutcomes :
       /\ Commit(clearAll(Store, ok), hist)
       /\ thrown' = IF clearAllThrows(ok) THEN "storage" ELSE "none"
       /\ faults' = faults + Fault(~ok)
  /\ last' = NoCall
  /\ UNCHANGED <<variant, platform, now, nextId, sess, mgr, run, restarts>>

\* initializeUploadStore / restoreUploads (the mmkv variant only has it)
RestoreUploads ==
  /\ variant = "mmkv"
  /\ \E ok \in IoOutcomes :
       /\ Commit(restoreUploads(Store, ok), hist)
       /\ faults' = faults + Fault(~ok)
       /\ last' = IF ok THEN NoCall ELSE Call("restoreUploads", 0, FALSE, 0, 0, 0)
  /\ thrown' = "none"
  /\ UNCHANGED <<variant, platform, now, nextId, sess, mgr, run, restarts>>

(***************************************************************************)
(* The lifecycle coordinator (BackgroundUploadManager).                    *)
(***************************************************************************)
\* live app-state listeners the model follows
MaxListeners == 2

NoRun == [kind |-> "none", queue |-> <<>>, awaiting |-> 0, current |-> 0]

RECURSIVE InOrder(_, _)
\* Object.values: the records of the ids in S, in insertion (id) order
InOrder(m, S) ==
  IF S = {} THEN <<>>
  ELSE LET i == CHOOSE j \in S : \A k \in S : j <= k
       IN  <<m[i]>> \o InOrder(m, S \ {i})

\* a resume that takes its snapshot from getAllUploads()
NewRunAll(kind) ==
  [NoRun EXCEPT !.kind = kind, !.queue = InOrder(uploads, DOMAIN uploads)]

\* resumePendingUploads up to its loop: the snapshot getActiveUploads() returns
NewRun(kind) ==
  [NoRun EXCEPT !.kind = kind, !.queue = InOrder(uploads, getActiveUploads(uploads))]

\* initialize without the test of isInitialized
InitializeUnguarded ==
  /\ mgr.listeners < MaxListeners
  /\ mgr.autoResumeEnabled => run.kind = "none"
  /\ IF mgr.autoResumeEnabled
       THEN /\ mgr' = [mgr EXCEPT !.listeners = @ + 1, !.subscription = TRUE]
            /\ run' = NewRun("init")
       ELSE /\ mgr' = [mgr EXCEPT !.listeners = @ + 1, !.subscription = TRUE,
                                  !.isInitialized = TRUE]
            /\ run' = run
  /\ hist' = [hist EXCEPT !.initAuto = mgr.autoResumeEnabled]
  /\ thrown' = "none"
  /\ last' = IF mgr.isInitialized THEN Call("initialize", 0, TRUE, 1, 0, 0) ELSE NoCall
  /\ UNCHANGED <<variant, platform, uploads, stored, now, nextId, sess, faults, restarts>>

\* initialize(options)
Initialize ==
  /\ IF mgr.isInitialized
       THEN UNCHANGED <<mgr, run, hist>>
       ELSE /\ mgr.listeners < MaxListeners
            /\ mgr.autoResumeEnabled => run.kind = "none"
            \* configureBackgroundUploads: its errors are swallowed; setupAppStateListener
            /\ IF mgr.autoResumeEnabled
                 THEN /\ mgr' = [mgr EXCEPT !.listeners = @ + 1, !.subscription = TRUE]
                      /\ run' = NewRun("init")
                 ELSE /\ mgr' = [mgr EXCEPT !.listeners = @ + 1, !.subscription = TRUE,
                                            !.isInitialized = TRUE]
                      /\ run' = run
            /\ hist' = [hist EXCEPT !.initAuto = mgr.autoResumeEnabled]
  /\ thrown' = "none"
  \* calls: the configureBackgroundUploads calls of an initialize() that found
  \* the coordinator initialized
  /\ last' = IF mgr.isInitialized THEN Call("initialize", 0, TRUE, 0, 0, 0) ELSE NoCall
  /\ UNCHANGED <<variant, platform, uploads, stored, now, nextId, sess, faults, restarts>>

\* handleAppStateChange that resumes on every transition to foreground
AppStateChangeAlways(nextAppState) ==
  /\ mgr.listeners > 0
  /\ IF nextAppState = "active"
       THEN /\ run.kind = "none"
            /\ run' = [kind |-> "foreground", awaiting |-> 0, current |-> 0,
                       queue |-> InOrder(uploads, getActiveUploads(uploads))]
       ELSE run' = run
  /\ last' = NoCall
  /\ UNCHANGED <<variant, platform, uploads, stored, now, nextId, sess, mgr, thrown,
                 faults, restarts, hist>>

\* handleAppStateChange(nextAppState), called through a live listener
AppStateChange(nextAppState) ==
  /\ mgr.listeners > 0
  /\ IF nextAppState = "active" /\ mgr.autoResumeEnabled
       THEN /\ run.kind = "none"
            /\ run' = NewRun("foreground")
       ELSE run' = run
  /\ last' = NoCall
  /\ UNCHANGED <<variant, platform, uploads, stored, now, nextId, sess, mgr, thrown,
                 faults, restarts, hist>>

\* One iteration of the loop of resumePendingUploads, up to its await; with the
\* snapshot used up the run ends, and initialize() sets isInitialized.
BulkResumeStep ==
  /\ run.kind # "none"
  /\ run.awaiting = 0
  /\ IF run.queue = <<>>
       THEN /\ run' = NoRun
            /\ mgr' = IF run.kind = "init" THEN [mgr EXCEPT !.isInitialized = TRUE] ELSE mgr
            /\ UNCHANGED <<uploads, stored, hist, sess, nextId, faults>>
       ELSE LET uploadMetadata == Head(run.queue)
                upload == [NewSession(uploadMetadata.fileUri,
                                      uploadMetadata.options.callbacks)
                            EXCEPT !.byBulk = TRUE]
            IN  /\ mgr' = mgr
                /\ IF uploadMetadata.url = Null
                     THEN /\ run' = [run EXCEPT !.queue = Tail(@)]
                          /\ UNCHANGED <<uploads, stored, hist, sess, nextId, faults>>
                     ELSE /\ FreeSlots # {}
                          /\ \E outcome \in StartOutcomes(upload), ok \in IoOutcomes :
                               /\ CanStart(upload, outcome)
                               /\ faults + Fault(~ok) + Fault(outcome # "ok") <= MaxFaults
                               /\ LET r == start([st |-> Store, x |-> upload], nextId,
                                                 outcome, 0, ok)
                                      caught == r.thrown # "none"
                                      st2 == IF caught
                                               THEN updateUpload(r.st, uploadMetadata.id,
                                                                 [status |-> "failed"], ok)
                                               ELSE r.st
                                      pending == ~caught /\
                                                 (platform = "android" \/ outcome # "ok")
                                  IN  /\ Commit(st2, [hist EXCEPT !.resumedFrom =
                                                        @ \cup {uploadMetadata.id}])
                                      /\ sess' = IF caught THEN sess
                                                 ELSE [sess EXCEPT ![FirstFree] = r.x]
                                      /\ nextId' = r.id
                                      /\ run' = [run EXCEPT
                                                   !.queue = Tail(@),
                                                   !.awaiting = IF pending THEN FirstFree ELSE 0,
                                                   !.current = uploadMetadata.id]
                               /\ faults' = faults + Fault(~ok) + Fault(outcome # "ok")
  /\ last' = NoCall
  /\ UNCHANGED <<variant, platform, now, thrown, restarts>>

\* setAutoResume(enabled)
SetAutoResume(enabled) ==
  /\ mgr' = [mgr EXCEPT !.autoResumeEnabled = enabled]
  /\ last' = NoCall
  /\ UNCHANGED <<variant, platform, uploads, stored, now, nextId, sess, run, thrown,
                 faults, restarts, hist>>

\* pauseAllUploads that marks every record of the store, active or not
PauseEvery(st, S, ok) ==
  Written(st, [i \in DOMAIN st.mem |->
                 [st.mem[i] EXCEPT !.status = "paused", !.updatedAt = now]], ok)

RECURSIVE PauseEach(_, _, _)
\* the forEach of pauseAllUploads over the snapshot of active ids S
PauseEach(st, S, ok) ==
  IF S = {} THEN st
  ELSE LET i == CHOOSE j \in S : \A k \in S : j <= k
       IN  PauseEach(updateUpload(st, i, [status |-> "paused"], ok), S \ {i}, ok)

\* pauseAllUploads
PauseAllUploads ==
  /\ \E ok \in IoOutcomes :
       /\ Commit(PauseEach(Store, getActiveUploads(uploads), ok), hist)
       /\ faults' = faults + Fault(~ok)
  /\ thrown' = "none"
  /\ last' = NoCall
  /\ UNCHANGED <<variant, platform, now, nextId, sess, mgr, run, restarts>>

\* getUploadStats: the counts over getAllUploads()
getUploadStats(m) ==
  [total |-> Cardinality(DOMAIN m),
   active |-> Cardinality({i \in DOMAIN m : m[i].status = "uploading"}),
   completed |-> Cardinality({i \in DOMAIN m : m[i].status = "completed"}),
   failed |-> Cardinality({i \in DOMAIN m : m[i].status = "failed"}),
   paused |-> Cardinality({i \in DOMAIN m : m[i].status = "paused"})]

\* getUploadStats()
GetUploadStats ==
  /\ last' = [Call("getUploadStats", 0, mgr.isInitialized, 0, 0, 0)
               EXCEPT !.res = <<getUploadStats(uploads)>>]
  /\ thrown' = "none"
  /\ UNCHANGED <<variant, platform, uploads, stored, now, nextId, sess, mgr, run,
                 faults, restarts, hist>>

\* destroy
Destroy ==
  /\ mgr' = [mgr EXCEPT !.listeners = IF mgr.subscription THEN @ - 1 ELSE @,
                        !.subscription = FALSE, !.isInitialized = FALSE]
  /\ thrown' = "none"
  /\ last' = NoCall
  /\ UNCHANGED <<variant, platform, uploads, stored, now, nextId, sess, run, faults,
                 restarts, hist>>

(***************************************************************************)
(* The environment: the clock and the process.                             *)
(***************************************************************************)
\* latest value of Date.now() the model follows
MaxClock == 1

Tick ==
  /\ now < MaxClock
  /\ now' = now + 1
  /\ last' = NoCall
  /\ UNCHANGED <<variant, platform, uploads, stored, nextId, sess, mgr, run, thrown,
                 faults, restarts, hist>>

NewManager ==
  [isInitialized |-> FALSE, subscription |-> FALSE, listeners |-> 0,
   autoResumeEnabled |-> TRUE]

\* The process ends and a new one starts: every object is gone, MMKV is kept. The
\* mmkv variant starts with uploads: {}; the persist variant hydrates from MMKV.
Restart ==
  /\ restarts < MaxRestarts
  /\ restarts' = restarts + 1
  /\ \E ok \in IoOutcomes :
       /\ uploads' = IF variant = "persist" THEN getStoredUploads(stored, ok) ELSE Empty
       /\ hist' = [ioFailed |-> variant = "persist" /\ ~ok,
                   synced |-> variant = "persist",
                   initAuto |-> FALSE,
                   bootActive |-> getActiveUploads(stored),
                   resumedFrom |-> {}]
       /\ faults' = faults + Fault(variant = "persist" /\ ~ok)
       /\ last' = IF variant = "persist" /\ ~ok
                    THEN Call("hydrate", 0, FALSE, 0, 0, 0) ELSE NoCall
  /\ sess' = [s \in Sessions |-> NoSession]
  /\ mgr' = NewManager
  /\ run' = NoRun
  /\ thrown' = "none"
  /\ UNCHANGED <<variant, platform, stored, now, nextId>>

Init ==
  /\ variant \in {"mmkv", "persist"}
  /\ platform \in {"android", "ios"}
  /\ uploads = Empty
  /\ stored = Empty
  /\ now = 0
  /\ nextId = 1
  /\ sess = [s \in 1..MaxSessions |-> NoSession]
  /\ mgr = NewManager
  /\ run = NoRun
  /\ thrown = "none"
  /\ faults = 0
  /\ restarts = 0
  /\ hist = [ioFailed |-> FALSE, synced |-> TRUE, initAuto |-> FALSE,
             bootActive |-> {}, resumedFrom |-> {}]
  /\ last = NoCall

\* upload ids an earlier process handed out, whose records it left in MMKV
Earlier == {-2, -1}

\* the records an earlier process can have left for the empty file: the url is
\* known once the upload has completed (android only; it stays when start(),
\* pause() or abort() change the status afterwards)
EarlierRecords(i) ==
  {[id |-> i, fileUri |-> "fileB", url |-> u, uploadSize |-> 0, offset |-> 0,
    options |-> [callbacks |-> FALSE], status |-> st, createdAt |-> 0, updatedAt |-> 0] :
     u \in (IF platform = "android" THEN {Null, i} ELSE {Null}),
     st \in {"uploading", "paused", "completed", "failed"}}

\* A process that starts with MMKV holding the records of two earlier uploads: the
\* manual store starts empty, the persist store is hydrated.
InitBulk ==
  /\ variant \in {"mmkv", "persist"}
  /\ platform \in {"android", "ios"}
  /\ stored \in {m \in [Earlier -> UNION {EarlierRecords(i) : i \in Earlier}] :
                   \A i \in Earlier : /\ m[i].id = i
                                      /\ m[i].status = "completed" => m[i].url # Null}
  /\ uploads = IF variant = "persist" THEN stored ELSE Empty
  /\ now = 0
  /\ nextId = 1
  /\ sess = [s \in 1..MaxSessions |-> NoSession]
  /\ mgr = NewManager
  /\ run = NoRun
  /\ thrown = "none"
  /\ faults = 0
  /\ restarts = 0
  /\ hist = [ioFailed |-> FALSE, synced |-> variant = "persist", initAuto |-> FALSE,
             bootActive |-> getActiveUploads(stored), resumedFrom |-> {}]
  /\ last = NoCall

\* the record a process leaves when it is killed inside start(), between the write
\* of addUpload and the write of updateUpload
PendingRecord(i) ==
  [id |-> i, fileUri |-> "fileB", url |-> Null, uploadSize |-> 0, offset |-> 0,
   options |-> [callbacks |-> FALSE], status |-> "pending", createdAt |-> 0, updatedAt |-> 0]

\* what MMKV can hold when a process starts: records of up to two earlier uploads
Contents ==
  UNION {{m \in [D -> UNION {EarlierRecords(i) \cup {PendingRecord(i)} : i \in D}] :
            \A i \in D : /\ m[i].id = i
                          /\ (platform = "android" /\ m[i].status = "completed")
                               => m[i].url # Null} : D \in SUBSET Earlier}

\* A process that starts over any such content: the manual store starts empty, the
\* persist store is hydrated.
InitContents ==
  /\ variant \in {"mmkv", "persist"}
  /\ platform \in {"android", "ios"}
  /\ stored \in Contents
  /\ uploads = IF variant = "persist" THEN stored ELSE Empty
  /\ now = 0
  /\ nextId = 1
  /\ sess = [s \in 1..MaxSessions |-> NoSession]
  /\ mgr = NewManager
  /\ run = NoRun
  /\ thrown = "none"
  /\ faults = 0
  /\ restarts = 0
  /\ hist = [ioFailed |-> FALSE, synced |-> variant = "persist", initAuto |-> FALSE,
             bootActive |-> getActiveUploads(stored), resumedFrom |-> {}]
  /\ last = NoCall

SessionOp ==
  \/ \E f \in Files, cb \in BOOLEAN : Construct(f, cb)
  \/ \E s \in Sessions : Start(s)
  \/ \E s \in Sessions : Pause(s)
  \/ \E s \in Sessions : Resume(s)
  \/ \E s \in Sessions : Abort(s)
  \/ \E s \in Sessions : Release(s)

TransportEvent ==
  \/ \E s \in Sessions, b \in 1..SizeA : TransportProgress(s, b)
  \/ \E s \in Sessions : TransportSuccess(s)
  \/ \E s \in Sessions : TransportError(s)
  \/ \E s \in Sessions : PromiseRejected(s)

StoreOp ==
  \/ \E id \in Ids : RemoveUpload(id)
  \/ ClearCompleted
  \/ ClearAll
  \/ RestoreUploads

CoordinatorOp ==
  \/ Initialize
  \/ \E a \in {"active", "background"} : AppStateChange(a)
  \/ BulkResumeStep
  \/ \E e \in BOOLEAN : SetAutoResume(e)
  \/ PauseAllUploads
  \/ Destroy

\* the session, its transport and the store, within one process
Next ==
  \/ SessionOp
  \/ TransportEvent
  \/ StoreOp
  \/ PauseAllUploads

Spec == Init /\ [][Next]_vars

\* the store over process restarts and clock readings, with the sessions that fill it
NextStore ==
  \/ \E f \in Files, cb \in BOOLEAN : Construct(f, cb)
  \/ \E s \in Sessions : Start(s)
  \/ \E s \in Sessions : TransportSuccess(s)
  \/ \E s \in Sessions : Release(s)
  \/ StoreOp
  \/ PauseAllUploads
  \/ Tick
  \/ Restart

SpecStore == Init /\ [][NextStore]_vars

\* the coordinator over process restarts, with sessions for the empty file, whose
\* transfers end without progress events
NextLifecycle ==
  \/ Construct("fileB", FALSE)
  \/ \E s \in Sessions : Start(s)
  \/ \E s \in Sessions : Release(s)
  \/ \E s \in Sessions : TransportSuccess(s)
  \/ \E s \in Sessions : TransportError(s)
  \/ \E s \in Sessions : PromiseRejected(s)
  \/ CoordinatorOp
  \/ RestoreUploads
  \/ Restart

SpecLifecycle == Init /\ [][NextLifecycle]_vars

\* sessions that look up and adopt the uploads earlier sessions of the process left
NextPrevious ==
  \/ \E f \in Files, cb \in BOOLEAN : Construct(f, cb)
  \/ \E s \in Sessions : Start(s)
  \/ \E s \in Sessions, b \in 1..SizeA : TransportProgress(s, b)
  \/ \E s \in Sessions : TransportSuccess(s)
  \/ \E s \in Sessions : Release(s)
  \/ \E s \in Sessions : FindPreviousUploads(s)
  \/ \E s \in Sessions, k \in Ids : ResumeFromPreviousUpload(s, k)

SpecPrevious == Init /\ [][NextPrevious]_vars

\* eventHandlers.get(e) of session x, as the set of its elements
Registered(x, e) == {x.reg[e][k] : k \in DOMAIN x.reg[e]}

\* one session on the file of two bytes, built with option callbacks, its event
\* registry and the callbacks of its transport
NextEvents ==
  \/ Construct("fileA", TRUE)
  \/ \E s \in Sessions, e \in EventTypes, h \in Handlers : On(s, e, h)
  \/ \E s \in Sessions, e \in EventTypes, h \in Handlers : Off(s, e, h)
  \/ \E s \in Sessions, e \in EventTypes : OffAll(s, e)
  \/ \E s \in Sessions : Start(s)
  \/ \E s \in Sessions, b \in 1..SizeA : TransportProgress(s, b)
  \/ \E s \in Sessions : TransportSuccess(s)
  \/ \E s \in Sessions : TransportError(s)

\* the registry belongs to the session: one store variant is enough to exercise it
InitEvents == Init /\ variant = "mmkv"

SpecEvents == InitEvents /\ [][NextEvents]_vars

\* the store operations of the coordinator over what an earlier process left
NextContents ==
  \/ RestoreUploads
  \/ GetUploadStats
  \/ PauseAllUploads
  \/ ClearCompleted
  \/ ClearAll
  \/ Tick

SpecContents == InitContents /\ [][NextContents]_vars

\* the bulk resume of a process that found two earlier records
NextBulk ==
  \/ Initialize
  \/ \E a \in {"active", "background"} : AppStateChange(a)
  \/ BulkResumeStep
  \/ \E e \in BOOLEAN : SetAutoResume(e)
  \/ RestoreUploads
  \/ \E s \in Sessions : TransportSuccess(s)
  \/ \E s \in Sessions : TransportError(s)
  \/ \E s \in Sessions : PromiseRejected(s)
  \/ \E s \in Sessions : Release(s)

SpecBulk == InitBulk /\ [][NextBulk]_vars

(***************************************************************************)
(* Claims.                                                                 *)
(***************************************************************************)
\* C1: once initialize() has completed with auto-resume enabled, start() has been
\* called for every record that was pending or uploading in durable storage when
\* the process started (and is still stored).
C1_AutoResumeStartsActive ==
  (mgr.isInitialized /\ hist.initAuto) =>
    \A i \in hist.bootActive : i \in DOMAIN stored => i \in hist.resumedFrom

\* a step of a session, of a transport callback or of the coordinator
ClientStep == SessionOp \/ TransportEvent \/ CoordinatorOp

\* C2: completion is terminal: no session operation, transport callback or
\* coordinator operation changes the status of a record that is completed.
C2_CompletionTerminal ==
  [][ClientStep =>
       \A i \in DOMAIN uploads :
         (uploads[i].status = "completed" /\ i \in DOMAIN uploads')
           => uploads'[i].status = "completed"]_vars

\* C3: a progress event never lowers the persisted offset of a record and never
\* leaves it above the record's uploadSize.
C3_OffsetMonotone ==
  [][(\E s \in Sessions, b \in 1..SizeA : TransportProgress(s, b)) =>
       \A i \in DOMAIN uploads \cap DOMAIN uploads' :
         /\ uploads[i].offset <= uploads'[i].offset
         /\ uploads'[i].offset <= uploads'[i].uploadSize]_vars

\* the record of session s is stored with status failed
MarkedFailed(s) ==
  sess[s].native \in DOMAIN uploads => uploads[sess[s].native].status = "failed"

\* C4: a failure of a started upload leaves its record with status failed, and once
\* the failure is fully reported every registered error handler has been called
\* exactly once per failure.
C4_OneErrorEventPerFailure ==
  [][\A s \in Sessions :
       (/\ sess[s].alive /\ sess'[s].alive
        /\ sess'[s].native # 0
        /\ (sess'[s].failures > sess[s].failures \/ sess'[s].rejections < sess[s].rejections))
       => (sess'[s].rejections = 0 =>
             /\ MarkedFailed(s)'
             /\ sess'[s].errCalls = (IF sess'[s].cb THEN sess'[s].failures ELSE 0))]_vars

\* C5: a completed record has a non-null url.
C5_CompletedHasUrl ==
  \A i \in DOMAIN uploads : uploads[i].status = "completed" => uploads[i].url # Null

\* the edges of the session state machine
Edges ==
  {<<"pending", "uploading">>, <<"uploading", "completed">>, <<"uploading", "paused">>,
   <<"paused", "uploading">>, <<"uploading", "failed">>, <<"pending", "failed">>,
   <<"paused", "failed">>}

\* C6: every change of a record's status made by a session operation, a transport
\* callback or a coordinator operation is an edge of the session state machine.
C6_StatusFollowsStateMachine ==
  [][ClientStep =>
       \A i \in DOMAIN uploads \cap DOMAIN uploads' :
         \/ uploads'[i].status = uploads[i].status
         \/ <<uploads[i].status, uploads'[i].status>> \in Edges]_vars

\* C7: while no storage access fails, a record leaves the in-memory mapping or
\* durable storage only through remove(id), clearCompleted() or clearAll(); the
\* end of the process, which empties memory, is not an operation of the store.
C7_RecordsLeaveOnlyExplicitly ==
  [][(~hist.ioFailed /\ ~hist.ioFailed') =>
       \A i \in Ids :
         (\/ (i \in DOMAIN stored /\ i \notin DOMAIN stored')
          \/ (i \in DOMAIN uploads /\ i \notin DOMAIN uploads' /\ restarts' = restarts))
           => (RemoveUpload(i) \/ ClearCompleted \/ ClearAll)]_vars

\* C8: when no storage access has failed and the store has been loaded or written
\* since the process started, the mapping reloaded from durable storage is the
\* in-memory mapping.
C8_StoreRoundTrip ==
  (~hist.ioFailed /\ hist.synced) => getStoredUploads(stored, TRUE) = uploads

\* C9: no store operation surfaces a storage failure, and the in-memory mapping
\* reflects the requested mutation whatever the storage does.
C9_StorageErrorsSwallowed ==
  [][/\ thrown' # "storage"
     /\ ClearAll => uploads' = Empty
     /\ ClearCompleted => \A i \in DOMAIN uploads' : uploads'[i].status # "completed"
     /\ \A i \in Ids : RemoveUpload(i) => i \notin DOMAIN uploads']_vars

C11_StartReusesHandle ==
  [][\A s \in Sessions :
       /\ (Start(s) /\ sess[s].native # 0) =>
            /\ sess'[s].native = sess[s].native
            /\ nextId' = nextId
            /\ DOMAIN uploads' \subseteq DOMAIN uploads
       /\ (sess[s].alive /\ sess'[s].alive /\ sess[s].native # 0) =>
            sess'[s].native = sess[s].native]_vars

\* start() was called on a session that already held its handle
C11_Witness ==
  /\ last.op = "start" /\ last.had
  /\ sess[last.s].native # 0
  /\ nextId = 2

\* C12: start() on a session that adopted a previous upload's url and holds no
\* handle yet creates no new store record: the upload it resumes keeps its record.
C12_AdoptedUrlIsResumed ==
  [][\A s \in Sessions :
       (Start(s) /\ sess[s].url # Null /\ sess[s].native = 0 /\ sess'[s].native # 0)
         => /\ DOMAIN uploads' = DOMAIN uploads
            /\ \A i \in DOMAIN uploads' : uploads'[i].url = Null => uploads[i].url = Null]_vars

\* C20: findPreviousUploads() leaves the store as it is and returns one tuple
\* {uploadId, uploadUrl, fileUri, uploadSize, offset} for each record of the
\* session's file with a non-null url, whatever its status, and nothing else.
C20_FindPreviousUploadsExact ==
  [][\A s \in Sessions :
       FindPreviousUploads(s) =>
         /\ uploads' = uploads /\ stored' = stored
         /\ \A i \in DOMAIN uploads :
              LET hits == {k \in DOMAIN last'.res : last'.res[k].uploadId = i}
              IN  IF uploads[i].fileUri = sess[s].file /\ uploads[i].url # Null
                    THEN /\ Cardinality(hits) = 1
                         /\ \A k \in hits :
                              last'.res[k] = [uploadId |-> i, uploadUrl |-> uploads[i].url,
                                              fileUri |-> uploads[i].fileUri,
                                              uploadSize |-> uploads[i].uploadSize,
                                              offset |-> uploads[i].offset]
                    ELSE hits = {}
         /\ \A k \in DOMAIN last'.res : last'.res[k].uploadId \in DOMAIN uploads]_vars

\* findPreviousUploads() returned a tuple for a record that is not completed, and
\* the store also held a record it had to leave out
C20_Witness ==
  /\ last.op = "findPreviousUploads"
  /\ \E k \in DOMAIN last.res :
       /\ last.res[k].uploadId \in DOMAIN uploads
       /\ uploads[last.res[k].uploadId].status # "completed"
  /\ \E i \in DOMAIN uploads : \A k \in DOMAIN last.res : last.res[k].uploadId # i

C14_NotStartedRejected ==
  [][\A s \in Sessions :
       ((Pause(s) \/ Resume(s)) /\ sess[s].native = 0) =>
         /\ thrown' = "notStarted"
         /\ sess' = sess
         /\ uploads' = uploads /\ stored' = stored /\ nextId' = nextId]_vars

\* pause() or resume() was called on a session without a handle while the store
\* held a record
C14_Witness ==
  /\ last.op \in {"pause", "resume"} /\ ~last.had
  /\ thrown = "notStarted"
  /\ uploads # Empty

\* C15: the promise of start()/resume() is settled once the transport has taken
\* the operation (the call does not wait for the upload), and no promise is left
\* unsettled for good by a pause or an abort.
C15_StartSettlesOnceScheduled ==
  [][\A s \in Sessions :
       /\ ((Start(s) \/ Resume(s)) /\ sess'[s].native # 0) => Unsettled(sess'[s]) = 0
       /\ sess'[s].alive => ~sess'[s].hung]_vars

\* C16: initialize() on an initialized coordinator returns at once: no
\* configureBackgroundUploads call, no new app-state listener, no bulk resume, and
\* nothing else changes.
C16_InitializeIdempotent ==
  [][(Initialize /\ mgr.isInitialized) =>
       /\ last'.calls = 0
       /\ mgr' = mgr
       /\ run' = run
       /\ uploads' = uploads /\ stored' = stored /\ sess' = sess
       /\ thrown' = "none"]_vars

\* initialize() was called on an initialized coordinator with auto-resume enabled
\* while the store held an active record
C16_Witness ==
  /\ last.op = "initialize" /\ last.had
  /\ mgr.isInitialized /\ mgr.autoResumeEnabled
  /\ getActiveUploads(uploads) # {}

\* C17: in a bulk resume, a record whose start() fails (at creation, or by the
\* rejection the loop awaits) is marked failed in the store, the failure surfaces
\* to no caller and does not end the resume: the records still queued stay queued,
\* and the queue only ever loses its head to a step that called start() for it
\* (or skipped it for having no url).
C17_BulkResumeIsolatesFailures ==
  [][/\ (BulkResumeStep /\ run.queue # <<>> /\ Head(run.queue).url # Null) =>
          /\ Head(run.queue).id \in hist'.resumedFrom
          /\ run'.queue = Tail(run.queue) /\ run'.kind = run.kind
          /\ thrown' = thrown
          /\ (sess' = sess /\ Head(run.queue).id \in DOMAIN uploads) =>
                uploads'[Head(run.queue).id].status = "failed"
     /\ \A s \in Sessions :
          (PromiseRejected(s) /\ run.awaiting = s) =>
            /\ run.current \in DOMAIN uploads => uploads'[run.current].status = "failed"
            /\ run'.queue = run.queue /\ run'.kind = run.kind /\ run'.awaiting = 0
            /\ thrown' = thrown
     /\ (run.kind # "none" /\ run'.queue # run.queue /\ restarts' = restarts) =>
          BulkResumeStep /\ run'.queue = Tail(run.queue)]_vars

\* C17 witness: of two resumable records the first was marked failed by the resume,
\* and the second has been started since: its session holds a fresh handle
C17_Witness ==
  \E i, j \in DOMAIN uploads :
    /\ i < j /\ {i, j} \subseteq hist.resumedFrom
    /\ uploads[i].status = "failed" /\ uploads[i].url # Null /\ uploads[j].url # Null
    /\ \E s \in Sessions : sess[s].byBulk /\ sess[s].native \notin {0, i, j}
                            /\ sess[s].failures = 0

\* C18: when a success callback is delivered to a started session whose transport
\* reports the final URL u, every registered success handler is invoked, and
\* afterwards the session's record has status completed and url u.
C18_SuccessRecordsFinalUrl ==
  [][\A s \in Sessions :
       TransportSuccess(s) =>
         /\ last'.op = "success" /\ last'.calls = Fanout(sess[s])
         /\ sess[s].native \in DOMAIN uploads =>
              /\ uploads'[sess[s].native].status = "completed"
              /\ uploads'[sess[s].native].url = FinalUrl(s)]_vars

ExactlyOnce(q, S) == Len(q) = Cardinality(S) /\ {q[k] : k \in DOMAIN q} = S

\* the step leaves the handlers of every event type but e as they were
OtherTypesKept(s, e) == \A e2 \in EventTypes \ {e} : sess'[s].reg[e2] = sess[s].reg[e2]

C22_PauseAllOnlyStatus ==
  [][PauseAllUploads =>
       /\ DOMAIN uploads' = DOMAIN uploads
       /\ \A i \in DOMAIN uploads :
            uploads'[i] = IF i \in getActiveUploads(uploads)
                            THEN [uploads[i] EXCEPT !.status = "paused"]
                            ELSE uploads[i]
       /\ sess' = sess
       /\ getActiveUploads(uploads') = {}]_vars

\* C22 amended: pauseAllUploads() sets status paused on exactly the active records
\* and refreshes their updatedAt, leaves every other record and every other field as
\* it was, calls no transport handle, and leaves no active record.
C22_PauseAllStatusAndTime ==
  [][PauseAllUploads =>
       /\ DOMAIN uploads' = DOMAIN uploads
       /\ \A i \in DOMAIN uploads :
            uploads'[i] = IF i \in getActiveUploads(uploads)
                            THEN [uploads[i] EXCEPT !.status = "paused", !.updatedAt = now]
                            ELSE uploads[i]
       /\ sess' = sess
       /\ getActiveUploads(uploads') = {}]_vars

\* C22 witness: a record was paused in the store at a later time than it was
\* created, next to a completed record that kept its status
C22_Witness ==
  \E i, j \in DOMAIN uploads :
    /\ uploads[i].status = "paused" /\ uploads[i].updatedAt > uploads[i].createdAt
    /\ uploads[j].status = "completed"

\* C23: getUploadStats() returns total = the number of records, active = the number
\* of active records (pending or uploading, as getActiveUploads defines them), and
\* completed, failed, paused = the number of records with that status.
C23_StatsCountByStatus ==
  last.op = "getUploadStats" =>
    last.res[1] =
      [total |-> Cardinality(DOMAIN uploads),
       active |-> Cardinality(getActiveUploads(uploads)),
       completed |-> Cardinality({i \in DOMAIN uploads : uploads[i].status = "completed"}),
       failed |-> Cardinality({i \in DOMAIN uploads : uploads[i].status = "failed"}),
       paused |-> Cardinality({i \in DOMAIN uploads : uploads[i].status = "paused"})]

\* C24: getProgress() on a started session returns the last-known snapshot: after a
\* progress event (b, t) it reports bytesUploaded = b and percentage = b * 100 / t,
\* and percentage 0 when the size is 0.
C24_GetProgressIsLastSnapshot ==
  [][\A s \in Sessions : \A b \in 1..SizeA :
       TransportProgress(s, b) =>
         /\ getProgress(sess'[s]).bytesUploaded = b
         /\ getProgress(sess'[s]).bytesTotal = Size(s)
         /\ getProgress(sess'[s]).percentage =
              (IF Size(s) = 0 THEN 0 ELSE (b * 100) \div Size(s))]_vars

\* C25: a load of the durable state that cannot be read or parsed (restoreUploads
\* of the manual store, the hydration of the persist store) yields the empty store
\* and raises nothing; on the empty store start() works as on a new one: the
\* store then holds exactly the new record, in memory and, the write succeeding,
\* in MMKV.
C25_CorruptLoadGivesEmptyStore ==
  [][/\ ((RestoreUploads \/ Restart) /\ faults' > faults) =>
          /\ last'.op \in {"restoreUploads", "hydrate"}
          /\ uploads' = Empty /\ thrown' = "none"
     /\ \A s \in Sessions :
          (Start(s) /\ uploads = Empty /\ nextId' > nextId) =>
            /\ DOMAIN uploads' = {nextId}
            /\ faults' = faults => stored' = Serialize(uploads')]_vars

\* C25 witness: the load has just failed over a durable state that holds records:
\* the store is empty and nothing was raised
C25_Witness ==
  /\ last.op \in {"restoreUploads", "hydrate"}
  /\ uploads = Empty /\ stored # Empty /\ thrown = "none"

\* C26 as stated: an update for an id that is not in the store raises nothing and
\* leaves the in-memory mapping and the durable mapping as they were; so do the
\* updates the progress, success and error callbacks of a session issue after its
\* record was removed.
C26_UpdateOfAbsentIsNoOp ==
  [][\A s \in Sessions :
       (/\ sess[s].native \notin DOMAIN uploads
        /\ \/ \E b \in 1..SizeA : TransportProgress(s, b)
           \/ TransportSuccess(s)
           \/ TransportError(s)) =>
         /\ uploads' = uploads
         /\ stored' = stored
         /\ thrown' = thrown]_vars

\* C26 amended: such an update raises nothing and leaves the in-memory mapping as it
\* was; the manual store leaves the durable mapping as it was, the persist store
\* writes the unchanged in-memory mapping to it again, which changes it only where an
\* earlier write had failed.
C26_UpdateOfAbsentKeepsMemory ==
  [][\A s \in Sessions :
       (/\ sess[s].native \notin DOMAIN uploads
        /\ \/ \E b \in 1..SizeA : TransportProgress(s, b)
           \/ TransportSuccess(s)
           \/ TransportError(s)) =>
         /\ uploads' = uploads
         /\ thrown' = thrown
         /\ variant = "mmkv" => stored' = stored
         /\ variant = "persist" => stored' \in {stored, Serialize(uploads)}
         /\ ~hist.ioFailed => stored' = stored]_vars

\* C26 witness: a callback of a started session has been delivered after the
\* session's record was removed from the store
C26_Witness ==
  /\ last.op \in {"progress", "success", "error"}
  /\ sess[last.s].native # 0
  /\ sess[last.s].native \notin DOMAIN uploads
  /\ sess[last.s].native \notin DOMAIN stored

\* C27: clearCompleted() removes exactly the records whose status is completed and
\* leaves every other record present and unchanged, whatever the store holds; the
\* write succeeding, MMKV then holds the same mapping.
C27_ClearCompletedExact ==
  [][ClearCompleted =>
       /\ DOMAIN uploads' = {i \in DOMAIN uploads : uploads[i].status # "completed"}
       /\ \A i \in DOMAIN uploads' : uploads'[i] = uploads[i]
       /\ thrown' = "none"
       /\ faults' = faults => stored' = Serialize(uploads')]_vars

\* C27 witness: clearCompleted() has just removed a completed record from a store
\* that still holds a record of another status, and MMKV holds the same mapping
C27_Witness ==
  /\ last.op = "clearCompleted"
  /\ uploads # Empty
  /\ stored = Serialize(uploads)

\* C28: after a start() call that raised nothing and met no failure, the store holds
\* a record under the session's upload id with status uploading, whatever happened
\* before, a removal of the record between two start() calls of the session included.
C28_StartLeavesUploadingRecord ==
  [][\A s \in Sessions :
       (/\ Start(s)
        /\ thrown' = "none"
        /\ sess'[s].failures = sess[s].failures
        /\ sess'[s].rejections = sess[s].rejections) =>
         /\ sess'[s].native \in DOMAIN uploads'
         /\ uploads'[sess'[s].native].status = "uploading"]_vars

\* C29: a bulk resume calls start() on a reconstructed session for each active
\* record that has a url and for no other record: a record with a null url is
\* passed over without a session, a store write or a transport call, and a step of
\* the resume changes no record but the one it is resuming and the one its new
\* session inserts; the snapshot the resume works through holds the active records.
C29_BulkResumeStartsResumable ==
  [][/\ (BulkResumeStep /\ run.queue # <<>>) =>
          LET r == Head(run.queue)
          IN  /\ r.status \in {"pending", "uploading"}
              /\ r.url # Null => r.id \in hist'.resumedFrom
              /\ r.url = Null =>
                   /\ hist'.resumedFrom = hist.resumedFrom
                   /\ sess' = sess /\ uploads' = uploads /\ stored' = stored
                   /\ nextId' = nextId
              /\ \A i \in DOMAIN uploads :
                   (i # r.id /\ i \in DOMAIN uploads') => uploads'[i] = uploads[i]
              /\ DOMAIN uploads \subseteq DOMAIN uploads'
              /\ DOMAIN uploads' \ DOMAIN uploads \subseteq {nextId}
     /\ ((Initialize \/ AppStateChange("active")) /\ run.kind = "none" /\ run'.kind # "none") =>
          {run'.queue[k].id : k \in DOMAIN run'.queue} = getActiveUploads(uploads)
     /\ hist'.resumedFrom # hist.resumedFrom =>
          (BulkResumeStep \/ hist'.resumedFrom = {})]_vars

\* C29 witness: a resume is over that started a session for the record with a url
\* and passed over an active record without one, which is as it was
C29_Witness ==
  /\ run.kind = "none"
  /\ \E i, j \in DOMAIN uploads :
       /\ i # j
       /\ i \in hist.resumedFrom /\ uploads[i].url # Null
       /\ j \notin hist.resumedFrom /\ uploads[j].url = Null
       /\ uploads[j].status = "uploading"
  /\ \E s \in Sessions : sess[s].byBulk /\ sess[s].native # 0

\* the step starts no bulk resume, creates no session, hands out no upload id and
\* leaves the store, in memory and in MMKV, as it was
Quiet ==
  /\ run' = run /\ sess' = sess /\ nextId' = nextId
  /\ uploads' = uploads /\ stored' = stored

\* C30: a bulk resume runs only when auto-resume is enabled: with auto-resume disabled
\* neither initialize() nor a transition to foreground starts one, creates a session
\* or modifies the store; a transition to background never does, whatever the
\* setting; and a bulk resume begins only in an initialize() or a transition to
\* foreground that finds auto-resume enabled.
C30_ResumeOnlyWhenAutoResume ==
  [][/\ (Initialize /\ ~mgr.autoResumeEnabled) => Quiet
     /\ (AppStateChange("active") /\ ~mgr.autoResumeEnabled) => Quiet
     /\ AppStateChange("background") => Quiet
     /\ (run.kind = "none" /\ run'.kind # "none") =>
          /\ mgr.autoResumeEnabled
          /\ Initialize \/ AppStateChange("active")]_vars

\* C30 witness: initialize() has run with auto-resume disabled over a store that
\* holds an active record with a url, and nothing was resumed
C30_Witness ==
  /\ mgr.isInitialized /\ ~hist.initAuto /\ ~mgr.autoResumeEnabled
  /\ \E i \in getActiveUploads(uploads) : uploads[i].url # Null
  /\ hist.resumedFrom = {} /\ run.kind = "none"
  /\ \A s \in Sessions : ~sess[s].alive

\* C31: after destroy() the coordinator is uninitialized (its subscription is gone)
\* and stays so until initialize() is called again, also when destroy() falls into
\* an initialize() call that is still awaiting its bulk resume; and until then no
\* transition to foreground starts a bulk resume.
C31_DestroyStaysUninitialized ==
  [][/\ Destroy => (~mgr'.isInitialized /\ ~mgr'.subscription)
     /\ (~mgr.subscription /\ ~mgr.isInitialized /\ restarts' = restarts /\ ~Initialize) =>
          ~mgr'.isInitialized
     /\ (~mgr.subscription /\ AppStateChange("active")) => run' = run]_vars

\* C32: no record of the store, in memory or in MMKV, has an options field that
\* holds callback functions.
C32_OptionsHoldNoCallbacks ==
  /\ \A i \in DOMAIN uploads : ~uploads[i].options.callbacks
  /\ \A i \in DOMAIN stored : ~stored[i].options.callbacks

\* two sessions of one process side by side, each with its own upload of the file of
\* two bytes: start() and pause() and the callbacks of their transports (the android
\* one, whose worker threads run on while the commands are issued)
InitPair ==
  /\ variant \in {"mmkv", "persist"}
  /\ platform = "android"
  /\ uploads = Empty
  /\ stored = Empty
  /\ now = 0
  /\ nextId = 1
  /\ sess = [s \in 1..(MaxSessions + 1) |-> NoSession]
  /\ mgr = NewManager
  /\ run = NoRun
  /\ thrown = "none"
  /\ faults = 0
  /\ restarts = 0
  /\ hist = [ioFailed |-> FALSE, synced |-> TRUE, initAuto |-> FALSE,
             bootActive |-> {}, resumedFrom |-> {}]
  /\ last = NoCall

NextPair ==
  \/ Construct("fileA", FALSE)
  \/ \E s \in Sessions : Start(s)
  \/ \E s \in Sessions : Pause(s)
  \/ \E s \in Sessions, b \in 1..SizeA : TransportProgress(s, b)
  \/ \E s \in Sessions : TransportSuccess(s)
  \/ \E s \in Sessions : TransportError(s)
  \/ \E s \in Sessions : PromiseRejected(s)

SpecPair == InitPair /\ [][NextPair]_vars

\* the step of session s leaves offset, status and url of its record i as they are,
\* but for the fields the function f names, which get its values
OwnRecord(i, f) ==
  /\ i \in DOMAIN uploads'
  /\ \A k \in {"offset", "status", "url"} :
       uploads'[i][k] = IF k \in DOMAIN f THEN f[k] ELSE uploads[i][k]

\* the step leaves every record but that of id i as it is, in memory and, no storage
\* access having failed, in MMKV
OthersKept(i) ==
  /\ \A j \in DOMAIN uploads \ {i} : j \in DOMAIN uploads' /\ uploads'[j] = uploads[j]
  /\ DOMAIN uploads' \subseteq DOMAIN uploads \cup {i}
  /\ ~hist'.ioFailed =>
       \A j \in DOMAIN stored \ {i} : j \in DOMAIN stored' /\ stored'[j] = stored[j]

\* the step is the callback e of the transport of session s
Delivered(e, s) == last'.op = e /\ last'.s = s

\* C33: updates to different ids are independent. A command or a transport callback
\* of a session changes no field of a record of another id, and what it does to
\* offset, status and url of the session's own record depends on the event and on
\* that record alone: so however the events of two sessions interleave, each record
\* ends as its session's own events leave it.
C33_UpdatesOfDifferentIdsIndependent ==
  [][\A s \in Sessions :
       LET i == sess'[s].native
           own == sess[s].native \in DOMAIN uploads
           command == /\ last'.op \in {"none", "start"}
                      /\ sess'[s].rejections = sess[s].rejections
                      /\ \A t \in Sessions \ {s} : sess'[t] = sess[t]
       IN  /\ Delivered("progress", s) =>
                /\ OthersKept(i)
                /\ own => OwnRecord(i, [offset |-> last'.b])
           /\ Delivered("success", s) =>
                /\ OthersKept(i)
                /\ own => OwnRecord(i, [status |-> "completed", url |-> sess'[s].url])
           /\ (Delivered("error", s) \/ sess'[s].rejections < sess[s].rejections) =>
                /\ OthersKept(i)
                /\ own => OwnRecord(i, [status |-> "failed"])
           /\ (command /\ Pause(s)) =>
                /\ OthersKept(i)
                /\ own => OwnRecord(i, [status |-> "paused"])
           /\ (command /\ Start(s)) =>
                /\ OthersKept(i)
                /\ own =>
                     \/ OwnRecord(i, [status |-> "uploading"])
                     \/ /\ sess'[s].failures > sess[s].failures
                        /\ OwnRecord(i, [status |-> "failed"])
                /\ (sess[s].native = 0 /\ i # 0) =>
                     /\ i \notin DOMAIN uploads /\ i \in DOMAIN uploads'
                     /\ uploads'[i].offset = 0 /\ uploads'[i].url = Null
                     /\ uploads'[i].status \in {"uploading", "failed"}]_vars

\* C33 witness: two live sessions with different upload ids whose events were
\* interleaved: the record of one is completed with the whole file uploaded and its
\* url set, the record of the other is paused at offset 1
C33_Witness ==
  \E s, t \in Sessions :
    /\ Started(s) /\ Started(t) /\ sess[s].native # sess[t].native
    /\ {sess[s].native, sess[t].native} \subseteq DOMAIN uploads
    /\ uploads[sess[s].native].status = "completed"
    /\ uploads[sess[s].native].offset = SizeA
    /\ uploads[sess[s].native].url # Null
    /\ uploads[sess[t].native].status = "paused"
    /\ uploads[sess[t].native].offset = 1

\* one session built with option callbacks, for either file, over clock readings: its
\* commands, the callbacks of its transport and pauseAllUploads of the coordinator
NextFrame ==
  \/ \E f \in Files : Construct(f, TRUE)
  \/ \E s \in Sessions : Start(s)
  \/ \E s \in Sessions : Pause(s)
  \/ \E s \in Sessions : Resume(s)
  \/ \E s \in Sessions : Abort(s)
  \/ TransportEvent
  \/ PauseAllUploads
  \/ Tick

SpecFrame == Init /\ [][NextFrame]_vars

\* the fields of a record that are set when it is created
Fixed == {"id", "fileUri", "uploadSize", "options", "createdAt"}

\* C34: once a record exists, no session operation, transport callback or
\* coordinator operation changes its id, fileUri, uploadSize, options (with the
\* metadata they carry) or createdAt: such a step changes status, offset, url and
\* updatedAt only.
C34_CreationFieldsImmutable ==
  [][\A i \in DOMAIN uploads :
       /\ i \in DOMAIN uploads'
       /\ \A k \in Fixed : uploads'[i][k] = uploads[i][k]]_vars

\* C34 witness: a record created at time 0 by a session with option callbacks has
\* been through progress, a pause and a completion at a later time: its offset,
\* status, url and updatedAt have changed
C34_Witness ==
  \E i \in DOMAIN uploads :
    /\ uploads[i].createdAt = 0 /\ uploads[i].updatedAt = MaxClock
    /\ uploads[i].status = "completed"
    /\ uploads[i].offset = SizeA /\ uploads[i].uploadSize = SizeA
    /\ uploads[i].url # Null
    /\ \E s \in Sessions : sess[s].native = i /\ sess[s].cb /\ sess[s].hung

\* getProgress that answers for a session without a handle as for one that has
\* not uploaded anything yet
GetProgressZero(s) ==
  /\ Live(s)
  /\ last' = [Call("getProgress", s, sess[s].native # 0, 0, 0, 0)
               EXCEPT !.res = <<getProgress(sess[s])>>]
  /\ thrown' = "none"
  /\ UNCHANGED <<variant, platform, uploads, stored, now, nextId, sess, mgr, run,
                 faults, restarts, hist>>

\* TusUpload.getProgress: null (no element in res) without a handle, else what the
\* handle reports
GetProgress(s) ==
  /\ Live(s)
  /\ last' = [Call("getProgress", s, sess[s].native # 0, 0, 0, 0)
               EXCEPT !.res = IF sess[s].native = 0 THEN <<>>
                              ELSE <<getProgress(sess[s])>>]
  /\ thrown' = "none"
  /\ UNCHANGED <<variant, platform, uploads, stored, now, nextId, sess, mgr, run,
                 faults, restarts, hist>>

\* sessions without option callbacks that are built, given a progress handler, asked
\* for their progress and for the previous uploads of their file and aborted before
\* they are started, in a store that earlier sessions of the process have filled
NextUnstarted ==
  \/ \E f \in Files : Construct(f, FALSE)
  \/ \E s \in Sessions : Start(s)
  \/ \E s \in Sessions, b \in 1..SizeA : TransportProgress(s, b)
  \/ \E s \in Sessions : TransportSuccess(s)
  \/ \E s \in Sessions : Release(s)
  \/ \E s \in Sessions : FindPreviousUploads(s)
  \/ \E s \in Sessions, k \in Ids : ResumeFromPreviousUpload(s, k)
  \/ \E s \in Sessions : On(s, "progress", "h")
  \/ \E s \in Sessions : Off(s, "progress", "h")
  \/ \E s \in Sessions : OffAll(s, "progress")
  \/ \E s \in Sessions : GetProgress(s)
  \/ \E s \in Sessions : sess[s].native = 0 /\ Abort(s)

SpecUnstarted == Init /\ [][NextUnstarted]_vars

\* the session holds no transport handle and nothing a handle would hold
NoHandle(x) ==
  /\ x.native = 0 /\ x.workers = 0 /\ ~x.task /\ ~x.isPaused
  /\ x.nurl = Null /\ x.noffset = 0 /\ x.upOff = 0

\* the step writes nothing to the store, creates no upload in the transport and
\* leaves the coordinator alone
NothingOutside ==
  /\ uploads' = uploads /\ stored' = stored /\ hist' = hist
  /\ nextId' = nextId /\ faults' = faults
  /\ mgr' = mgr /\ run' = run

\* C35: a session that has never been started changes nothing outside itself. Its
\* construction, on(), off(), getProgress(), findPreviousUploads(),
\* resumeFromPreviousUpload() and abort() write nothing to the store and reach no
\* transport (no upload is created, the session still has no handle); abort()
\* returns without error and changes nothing at all; getProgress() returns null.
C35_UnstartedSessionIsInert ==
  [][\A s \in Sessions :
       /\ (~sess[s].alive /\ sess'[s].alive /\ ~sess'[s].byBulk) =>
            NothingOutside /\ NoHandle(sess'[s])
       /\ (Live(s) /\ sess[s].native = 0) =>
            /\ (\/ On(s, "progress", "h") \/ Off(s, "progress", "h")
                \/ OffAll(s, "progress")
                \/ GetProgress(s)
                \/ FindPreviousUploads(s)
                \/ \E k \in Ids : ResumeFromPreviousUpload(s, k)
                \/ Abort(s)) =>
                 /\ NothingOutside /\ NoHandle(sess'[s])
                 /\ thrown' = "none"
            /\ Abort(s) => sess' = sess
            /\ GetProgress(s) => last'.res = <<>> /\ sess' = sess]_vars

\* C35 witness: getProgress() has returned null to a session without a handle that
\* was given a progress handler and adopted the url of a previous upload, while the
\* store holds that upload's record
C35_Witness ==
  /\ last.op = "getProgress" /\ ~last.had /\ last.res = <<>>
  /\ Live(last.s) /\ NoHandle(sess[last.s])
  /\ sess[last.s].url # Null
  /\ sess[last.s].reg["progress"] # <<>>
  /\ \E i \in DOMAIN uploads : uploads[i].url = sess[last.s].url

\* handlers.forEach when the k-th registered handler of event e throws: the handlers
\* up to it have been invoked, forEach ends with the exception
InvokedUntil(x, e, k) == SubSeq(Invoked(x, e), 1, k)

\* event e fires on session x (slot s) with arguments (b, t) and its k-th handler throws
FireUntil(e, s, x, b, t, k) ==
  [Call(e, s, TRUE, Times(InvokedUntil(x, e, k), "opt"), b, t)
     EXCEPT !.who = InvokedUntil(x, e, k)]

\* nativeUpload.onProgress whose k-th progress handler throws: the exception leaves
\* the callback before its store update
TransportProgressThrows(s, b, k) ==
  /\ Running(s)
  /\ b \in (sess[s].upOff + 1)..Size(s)
  /\ k \in 1..Len(Invoked(sess[s], "progress"))
  /\ sess' = [sess EXCEPT ![s] =
                IF platform = "android"
                  THEN [@ EXCEPT !.upOff = b, !.noffset = b, !.nurl = sess[s].native,
                                 !.workers = IF sess[s].isPaused THEN @ - 1 ELSE @,
                                 !.hung = @ \/ sess[s].isPaused]
                  ELSE [@ EXCEPT !.upOff = b]]
  /\ last' = FireUntil("progress", s, sess[s], b, Size(s), k)
  /\ UNCHANGED <<variant, platform, uploads, stored, now, nextId, mgr, run, thrown,
                 faults, restarts, hist>>

\* nativeUpload.onSuccess whose k-th success handler throws: _url is set, the
\* exception leaves the callback before its store update
TransportSuccessThrows(s, k) ==
  /\ Running(s)
  /\ platform = "android" => sess[s].upOff = Size(s)
  /\ k \in 1..Len(Invoked(sess[s], "success"))
  /\ sess' = [sess EXCEPT ![s] =
                IF platform = "android"
                  THEN [@ EXCEPT !.nurl = sess[s].native, !.url = sess[s].native,
                                 !.workers = @ - 1]
                  ELSE [@ EXCEPT !.url = sess[s].nurl, !.workers = @ - 1]]
  /\ last' = FireUntil("success", s, sess[s], FinalUrl(s), 0, k)
  /\ UNCHANGED <<variant, platform, uploads, stored, now, nextId, mgr, run, thrown,
                 faults, restarts, hist>>

\* nativeUpload.onError whose k-th error handler throws: the exception leaves
\* handleError before its store update
TransportErrorThrows(s, k) ==
  /\ Running(s)
  /\ faults < MaxFaults
  /\ k \in 1..Len(Invoked(sess[s], "error"))
  /\ sess' = [sess EXCEPT ![s] =
                [@ EXCEPT !.workers = @ - 1, !.failures = @ + 1, !.errCalls = @ + k,
                          !.rejections = IF platform = "android" THEN @ + 1 ELSE @]]
  /\ faults' = faults + 1
  /\ last' = FireUntil("error", s, sess[s], 0, 0, k)
  /\ UNCHANGED <<variant, platform, uploads, stored, now, nextId, mgr, run, thrown,
                 restarts, hist>>

\* one session built with option callbacks and given further handlers, whose
\* handlers return or throw when the callbacks of its transport invoke them
NextThrows ==
  \/ Construct("fileA", TRUE)
  \/ \E s \in Sessions, e \in EventTypes : On(s, e, "h")
  \/ \E s \in Sessions : Start(s)
  \/ \E s \in Sessions, b \in 1..SizeA : TransportProgress(s, b)
  \/ \E s \in Sessions : TransportSuccess(s)
  \/ \E s \in Sessions : TransportError(s)
  \/ \E s \in Sessions, b \in 1..SizeA, k \in 1..2 : TransportProgressThrows(s, b, k)
  \/ \E s \in Sessions, k \in 1..2 : TransportSuccessThrows(s, k)
  \/ \E s \in Sessions, k \in 1..2 : TransportErrorThrows(s, k)

SpecThrows == Init /\ [][NextThrows]_vars

\* the record of session s after the step, when the store holds one
RecordAfter(s, f) ==
  sess[s].native \in DOMAIN uploads =>
    /\ sess[s].native \in DOMAIN uploads'
    /\ \A k \in DOMAIN f : uploads'[sess[s].native][k] = f[k]

\* C36: when a handler throws during the fan-out of a progress, success or error
\* event, the remaining handlers of the event are still invoked and the store write
\* of the event is still made: the offset on progress, status completed and the url
\* on success, status failed on error.
C36_ThrowingHandlerIsContained ==
  [][\A s \in Sessions : \A k \in 1..2 :
       /\ \A b \in 1..SizeA :
            TransportProgressThrows(s, b, k) =>
              /\ ExactlyOnce(last'.who, Registered(sess[s], "progress"))
              /\ RecordAfter(s, [offset |-> b])
       /\ TransportSuccessThrows(s, k) =>
            /\ ExactlyOnce(last'.who, Registered(sess[s], "success"))
            /\ RecordAfter(s, [status |-> "completed", url |-> sess'[s].url])
       /\ TransportErrorThrows(s, k) =>
            /\ ExactlyOnce(last'.who, Registered(sess[s], "error"))
            /\ RecordAfter(s, [status |-> "failed"])]_vars

\* C37: a status the caller has set is not overridden by a late transport callback:
\* when the last command of a session was pause() or abort() (the handle's pause
\* flag is still set: no start() or resume() since) and its record is paused or
\* failed, a success or error callback that is delivered leaves the status as it is.
C37_LateCallbackKeepsCallerStatus ==
  [][\A s \in Sessions :
       (/\ last'.op \in {"success", "error"} /\ last'.s = s
        /\ sess[s].isPaused
        /\ sess[s].native \in DOMAIN uploads
        /\ uploads[sess[s].native].status \in {"paused", "failed"}) =>
         /\ sess[s].native \in DOMAIN uploads'
         /\ uploads'[sess[s].native].status = uploads[sess[s].native].status]_vars

\* C38: at most one app-state listener of the coordinator is registered at any time,
\* whatever initialize() and destroy() calls were made and however they overlapped,
\* and none is registered while the coordinator holds no subscription (before the
\* first initialize() and from destroy() to the next initialize()).
C38_AtMostOneSubscription ==
  /\ mgr.listeners <= 1
  /\ ~mgr.subscription => mgr.listeners = 0

\* C39: a bulk resume adds no record to the store: while a resume runs, every step
\* of it leaves the set of record ids as it is, in memory and in MMKV, and the
\* session it starts for a record continues under that record's id.
C39_BulkResumeAddsNoRecord ==
  [][BulkResumeStep =>
       /\ DOMAIN uploads' = DOMAIN uploads
       /\ DOMAIN stored' = DOMAIN stored
       /\ \A s \in Sessions :
            (sess'[s].byBulk /\ sess'[s] # sess[s] /\ sess'[s].native # 0) =>
              sess'[s].native = Head(run.queue).id]_vars

\* TusUpload.start on the android transport while a worker thread of the handle is
\* still running: HybridTusUpload.start clears the pause flag and starts a thread
StartWhileRunning(s) ==
  /\ Live(s)
  /\ platform = "android"
  /\ sess[s].native # 0
  /\ sess[s].workers \in 1..MaxWorkers
  /\ \E u \in StartOffsets(sess[s]), ok \in IoOutcomes :
       /\ LET r == start(World(s), nextId, "ok", u, ok)
          IN  /\ Commit(r.st, hist)
              /\ sess' = [sess EXCEPT ![s] = r.x]
              /\ nextId' = r.id
              /\ thrown' = r.thrown
       /\ faults' = faults + Fault(~ok)
  /\ last' = Call("start", s, TRUE, 0, 0, 0)
  /\ UNCHANGED <<variant, platform, now, mgr, run, restarts>>

\* TusUpload.resume on the android transport while a worker thread of the handle is
\* still running: HybridTusUpload.resume is start()
ResumeWhileRunning(s) ==
  /\ Live(s)
  /\ platform = "android"
  /\ sess[s].native # 0
  /\ sess[s].workers \in 1..MaxWorkers
  /\ \E u \in StartOffsets(sess[s]), ok \in IoOutcomes :
       /\ LET r == resume(World(s), "ok", u, ok)
          IN  /\ Commit(r.st, hist)
              /\ sess' = [sess EXCEPT ![s] = r.x]
       /\ faults' = faults + Fault(~ok)
  /\ thrown' = "none"
  /\ last' = NoCall
  /\ UNCHANGED <<variant, platform, now, nextId, mgr, run, restarts>>

\* one session on the android transport: its commands in any order, also while a
\* worker thread of its handle is running, and the steps of the workers
InitWorkers == Init /\ platform = "android"

NextWorkers ==
  \/ Construct("fileA", FALSE)
  \/ \E s \in Sessions : Start(s)
  \/ \E s \in Sessions : Pause(s)
  \/ \E s \in Sessions : Resume(s)
  \/ \E s \in Sessions : Abort(s)
  \/ \E s \in Sessions : StartWhileRunning(s)
  \/ \E s \in Sessions : ResumeWhileRunning(s)
  \/ \E s \in Sessions, b \in 1..SizeA : TransportProgress(s, b)
  \/ \E s \in Sessions : TransportSuccess(s)

SpecWorkers == InitWorkers /\ [][NextWorkers]_vars

\* C40: in the android transport at most one worker thread of an upload handle is
\* in the chunk-upload loop at any time, whatever start(), pause(), resume() and
\* abort() calls are made on the handle.
C40_OneWorkerPerHandle ==
  \A s \in Sessions : (platform = "android" /\ sess[s].alive) => sess[s].workers <= 1

====
